---- MODULE Spec2Model ----
(***************************************************************************)
(* A model of the dungeon generator (src/src/dungeon.ts): the Dungeon      *)
(* constructor's pipeline                                                  *)
(*   generateTree -> generateRooms -> generateCorridors ->                 *)
(*   generateMonsters -> generateTilemap (carveRooms, carveCorridors,      *)
(*   carvePatterns, carveTraps, cleanTilemap, generateTileMask,            *)
(*   normalizeTileMask).                                                   *)
(* Every call of the random source is a nondeterministic choice.           *)
(* Coordinates are integers; a centre (x + width / 2) is kept doubled.     *)
(* A ratio or a chance is a numerator over a fixed denominator.            *)
(***************************************************************************)
EXTENDS Integers, Sequences, FiniteSets, TLC

VARIABLES
    args,       \* the DungeonArgs of the call
    pc,         \* the pipeline step to run next, "done", "error" (TypeError)
                \* or "stackOverflow" (RangeError of the call stack)
    tree,       \* path (sequence of 0 = left / 1 = right) -> Container rectangle
    todo,       \* stack of the nodes generateTree still has to split (depth first)
    retries,    \* nested splitContainer calls on the node being split
    lastDraw,   \* direction and size drawn by the latest splitContainer call
    rooms,      \* leaf path -> the room generateRooms computed for it
    corridors,  \* internal path -> the corridor of that node
    monsters,   \* the Monster list
    tilemap,    \* the tile grid: row -> (column -> id)
    props       \* the prop grid

vars == <<args, pc, tree, todo, retries, lastDraw, rooms, corridors, monsters,
          tilemap, props>>

----------------------------------------------------------------------------
\* Bounds of the model

MapWidth == 8
MapHeight == 6
MaxIterations == 2
\* Nested splitContainer calls the engine's call stack has room for
MaxRetries == 2
MaxPoints == 2

\* Denominators of the ratios (containerWidthRatio = n / RatioDen) and of the
\* chances (roomHoleChance = n / ChanceDen)
RatioDen == 2
ChanceDen == 2

----------------------------------------------------------------------------
\* utils: the random source

\* random(min, max): an integer of [min, max); min when the range is empty
RandomRange(min, max) == IF max > min THEN min .. (max - 1) ELSE {min}

\* randomWeights(weights, values): a value whose weight is positive
RandomWeights(weights, values) ==
    {values[i] : i \in {j \in DOMAIN values : weights[j] > 0}}

Min(a, b) == IF a < b THEN a ELSE b

\* Math.ceil(n / 2)
CeilHalf(n) == (n + 1) \div 2

----------------------------------------------------------------------------
\* types: rectangles and the tree

Rect(x, y, w, h) == [x |-> x, y |-> y, width |-> w, height |-> h]

\* Rectangle.right, Rectangle.down
Right(r) == r.x + r.width
Down(r) == r.y + r.height

\* Rectangle.center, doubled: 2 * (x + width / 2)
Center2(r) == [x |-> 2 * r.x + r.width, y |-> 2 * r.y + r.height]

Root == << >>
LeftOf(p) == Append(p, 0)
RightOf(p) == Append(p, 1)

\* TreeNode: a node is internal when it has both children
IsInternal(t, p) == LeftOf(p) \in DOMAIN t /\ RightOf(p) \in DOMAIN t
InternalNodes(t) == {p \in DOMAIN t : IsInternal(t, p)}

\* TreeNode.leaves: the bottom-most containers under p, left to right
RECURSIVE LeavesOf(_, _)
LeavesOf(t, p) ==
    IF IsInternal(t, p)
    THEN LeavesOf(t, LeftOf(p)) \o LeavesOf(t, RightOf(p))
    ELSE <<p>>

Leaves(t) == LeavesOf(t, Root)
LeafSet(t) == {Leaves(t)[i] : i \in DOMAIN Leaves(t)}

----------------------------------------------------------------------------
\* The arguments of the call

BaseArgs ==
    [mapWidth |-> MapWidth, mapHeight |-> MapHeight, mapGutterWidth |-> 0,
     iterations |-> 1,
     containerGutterWidth |-> 1,
     containerWidthRatio |-> 1, containerHeightRatio |-> 1,
     roomGutterWidth |-> 0, roomMaxMonsters |-> 0, roomMinSize |-> 1,
     roomHoleChance |-> 0,
     corridorWidth |-> 1, corridorTrapChance |-> 0]

\* The calls that are modelled: one group of arguments varies at a time, the
\* others stay at the base
TreeArgs ==
    {[BaseArgs EXCEPT !.mapGutterWidth = g, !.iterations = i,
                      !.containerWidthRatio = r, !.containerHeightRatio = r] :
        g \in 0 .. 1, i \in 0 .. MaxIterations, r \in {0, 1, 2 * RatioDen}}

RoomArgs ==
    {[BaseArgs EXCEPT !.iterations = i, !.containerGutterWidth = g,
                      !.containerWidthRatio = r, !.containerHeightRatio = r,
                      !.roomMinSize = m, !.roomHoleChance = c] :
        i \in 0 .. 1, g \in 0 .. 1, r \in 0 .. 1, m \in 1 .. 3,
        c \in {0, 1, ChanceDen}}

CorridorArgs ==
    {[BaseArgs EXCEPT !.mapGutterWidth = g, !.iterations = i,
                      !.containerWidthRatio = r, !.containerHeightRatio = r,
                      !.corridorWidth = w, !.corridorTrapChance = ChanceDen] :
        g \in 0 .. 1, i \in {1}, r \in 0 .. 1, w \in 1 .. 2}
    \cup
    {[BaseArgs EXCEPT !.iterations = i,
                      !.containerWidthRatio = r, !.containerHeightRatio = r,
                      !.corridorTrapChance = ChanceDen] :
        i \in 2 .. MaxIterations, r \in 0 .. 1}
    \cup
    {[BaseArgs EXCEPT !.corridorWidth = w, !.corridorTrapChance = 1,
                      !.roomHoleChance = ChanceDen] : w \in 1 .. 2}

MonsterArgs ==
    {[BaseArgs EXCEPT !.iterations = i, !.containerGutterWidth = 0,
                      !.roomGutterWidth = g, !.roomMaxMonsters = m] :
        i \in 0 .. 1, g \in 0 .. 1, m \in 0 .. 1}

ArgsSet == TreeArgs \cup RoomArgs \cup CorridorArgs \cup MonsterArgs

----------------------------------------------------------------------------
\* constructor: the root container and the first call of generateTree

RootContainer(a) ==
    Rect(a.mapGutterWidth, a.mapGutterWidth,
         a.mapWidth - a.mapGutterWidth * 2, a.mapHeight - a.mapGutterWidth * 2)

NoFunction == [p \in {} |-> 0]

\* A generateTree that stops one level early
Recurses_StopsEarly(remaining) == remaining > 1

\* generateTree's test "iterations != 0" on the iterations still to do
Recurses(remaining) == remaining # 0

Init ==
    /\ args \in ArgsSet
    /\ tree = [p \in {Root} |-> RootContainer(args)]
    /\ todo = IF Recurses(args.iterations) THEN <<Root>> ELSE << >>
    /\ pc = IF Recurses(args.iterations) THEN "generateTree" ELSE "generateRooms"
    /\ retries = 0
    /\ lastDraw = [direction |-> "none", size |-> 0]
    /\ rooms = NoFunction
    /\ corridors = NoFunction
    /\ monsters = << >>
    /\ tilemap = NoFunction
    /\ props = NoFunction

----------------------------------------------------------------------------
\* generateTree / splitContainer

\* left.width / left.height < ratio, as JavaScript divides: x / 0 is Infinity
\* or NaN, and neither is below the ratio
RatioBelow(a, b, num) == b > 0 /\ a * RatioDen < num * b

\* The two containers of one splitContainer call
SplitPair(c, direction, size) ==
    IF direction = "vertical"
    THEN <<Rect(c.x, c.y, size, c.height),
           Rect(c.x + size, c.y, c.width - size, c.height)>>
    ELSE <<Rect(c.x, c.y, c.width, size),
           Rect(c.x, c.y + size, c.width, c.height - size)>>

\* The ratio check that makes splitContainer call itself again
SplitRejected(pair, direction, a) ==
    IF direction = "vertical"
    THEN \/ RatioBelow(pair[1].width, pair[1].height, a.containerWidthRatio)
         \/ RatioBelow(pair[2].width, pair[2].height, a.containerWidthRatio)
    ELSE \/ RatioBelow(pair[1].height, pair[1].width, a.containerHeightRatio)
         \/ RatioBelow(pair[2].height, pair[2].width, a.containerHeightRatio)

\* The sizes random(1, extent) can give for the left container
SplitSizes(c, direction) ==
    RandomRange(1, IF direction = "vertical" THEN c.width ELSE c.height)

\* One call of splitContainer on the node generateTree is at: it returns the
\* pair (generateTree attaches the children and goes on depth first) or
\* calls itself again; a nested call the call stack has no room for ends
\* the constructor with a RangeError
SplitContainer ==
    /\ pc = "generateTree"
    /\ todo # << >>
    /\ LET p == Head(todo)
           c == tree[p]
       IN \E direction \in RandomWeights(<<1, 1>>, <<"vertical", "horizontal">>) :
          \E size \in SplitSizes(c, direction) :
            LET pair == SplitPair(c, direction, size)
                more == IF Recurses(args.iterations - (Len(p) + 1))
                        THEN <<LeftOf(p), RightOf(p)>> ELSE << >>
            IN /\ lastDraw' = [direction |-> direction, size |-> size]
               /\ IF SplitRejected(pair, direction, args)
                  THEN /\ retries' = Min(retries + 1, MaxRetries)
                       /\ pc' = IF retries < MaxRetries
                                THEN "generateTree" ELSE "stackOverflow"
                       /\ UNCHANGED <<tree, todo>>
                  ELSE /\ retries' = 0
                       /\ tree' = [q \in DOMAIN tree \cup {LeftOf(p), RightOf(p)} |->
                                      IF q = LeftOf(p) THEN pair[1]
                                      ELSE IF q = RightOf(p) THEN pair[2]
                                      ELSE tree[q]]
                       /\ todo' = more \o Tail(todo)
                       /\ pc' = IF more \o Tail(todo) = << >>
                                THEN "generateRooms" ELSE "generateTree"
    /\ UNCHANGED <<args, rooms, corridors, monsters, tilemap, props>>

----------------------------------------------------------------------------
\* patterns: the hole and trap pattern library

\* Holes.all, in library order; the tiles are ids of the tile grid, 1 (solid)
\* puts a solid cell back into the carved room
Holes ==
    <<[width |-> 2, height |-> 2, tiles |-> <<<<1, 1>>, <<1, 1>>>>],
      [width |-> 1, height |-> 1, tiles |-> <<<<1>>>>]>>

\* Traps.smallLarge (horizontal corridors) and Traps.smallLong (vertical ones)
Traps(name) ==
    IF name = "smallLarge" THEN [width |-> 2, height |-> 1]
    ELSE [width |-> 1, height |-> 2]

----------------------------------------------------------------------------
\* generateRooms

\* The hole generateRooms attaches: the first of Holes.all that fits twice in
\* the room (0: none)
FirstHole(w, h) ==
    LET fits == {i \in DOMAIN Holes :
                    w >= Holes[i].width * 2 /\ h >= Holes[i].height * 2}
    IN IF fits = {} THEN 0 ELSE CHOOSE i \in fits : \A j \in fits : i <= j

\* A generateRooms that forgets the room's offset when it computes the size
MakeRoom_NoOffset(c, a, jx, jy, jw, jh, hasHole) ==
    LET x == c.x + a.containerGutterWidth + jx
        y == c.y + a.containerGutterWidth + jy
        width == c.width - a.containerGutterWidth - jw
        height == c.height - a.containerGutterWidth - jh
    IN IF width < a.roomMinSize \/ height < a.roomMinSize
       THEN [present |-> FALSE, x |-> x, y |-> y, width |-> width,
             height |-> height, holes |-> 0]
       ELSE [present |-> TRUE, x |-> x, y |-> y, width |-> width,
             height |-> height, holes |-> 0]

\* The body of the forEach for one leaf container, given its random draws.
\* present = FALSE: the room was dismissed and container.room stays unset
\* (x, y, width, height are then the dimensions that were computed).
MakeRoom(c, a, jx, jy, jw, jh, hasHole) ==
    LET x == c.x + a.containerGutterWidth + jx
        y == c.y + a.containerGutterWidth + jy
        width == c.width - (x - c.x) - a.containerGutterWidth - jw
        height == c.height - (y - c.y) - a.containerGutterWidth - jh
    IN IF width < a.roomMinSize \/ height < a.roomMinSize
       THEN [present |-> FALSE, x |-> x, y |-> y, width |-> width,
             height |-> height, holes |-> 0]
       ELSE [present |-> TRUE, x |-> x, y |-> y, width |-> width,
             height |-> height,
             holes |-> IF hasHole THEN FirstHole(width, height) ELSE 0]

RoomOutcomes(c, a) ==
    {MakeRoom(c, a, jx, jy, jw, jh, hasHole) :
        jx \in RandomRange(0, c.width \div 4),
        jy \in RandomRange(0, c.height \div 4),
        jw \in RandomRange(0, c.width \div 4),
        jh \in RandomRange(0, c.height \div 4),
        hasHole \in RandomWeights(<<a.roomHoleChance, ChanceDen - a.roomHoleChance>>,
                                  <<TRUE, FALSE>>)}

\* One outcome per leaf, in the order of node.leaves
RECURSIVE RoomSeqs(_, _, _)
RoomSeqs(t, ls, a) ==
    IF ls = << >> THEN {<< >>}
    ELSE {<<r>> \o rest : r \in RoomOutcomes(t[Head(ls)], a),
                          rest \in RoomSeqs(t, Tail(ls), a)}

IndexOf(seq, e) == CHOOSE i \in DOMAIN seq : seq[i] = e

GenerateRooms ==
    /\ pc = "generateRooms"
    /\ LET ls == Leaves(tree)
       IN \E rs \in RoomSeqs(tree, ls, args) :
            rooms' = [p \in LeafSet(tree) |-> rs[IndexOf(ls, p)]]
    /\ pc' = "generateCorridors"
    /\ UNCHANGED <<args, tree, todo, retries, lastDraw, corridors, monsters,
                   tilemap, props>>

----------------------------------------------------------------------------
\* generateCorridors

\* TreeNode.leaf: the container the node was constructed with (line 108), at
\* an internal node as at a childless one
NodeLeaf(t, p) == t[p]

\* Corridor.direction
Direction(c) == IF c.width > c.height THEN "horizontal" ELSE "vertical"

\* A generateCorridors that starts the corridor at the right centre
MakeCorridor_FromRight(t, p, a, hasTrap) ==
    LET leftCenter == Center2(NodeLeaf(t, LeftOf(p)))
        rightCenter == Center2(NodeLeaf(t, RightOf(p)))
        x == CeilHalf(rightCenter.x)
        y == CeilHalf(rightCenter.y)
        r == IF leftCenter.x = rightCenter.x
             THEN Rect(x, y, a.corridorWidth, CeilHalf(rightCenter.y) - y)
             ELSE Rect(x, y, CeilHalf(rightCenter.x) - x, a.corridorWidth)
    IN [x |-> r.x, y |-> r.y, width |-> r.width, height |-> r.height,
        traps |-> IF hasTrap THEN "smallLong" ELSE "none"]

\* The corridor of internal node p, given the outcome of its trap draw; the
\* two centres are those of the containers of p's two children
MakeCorridor(t, p, a, hasTrap) ==
    LET leftCenter == Center2(NodeLeaf(t, LeftOf(p)))
        rightCenter == Center2(NodeLeaf(t, RightOf(p)))
        x == CeilHalf(leftCenter.x)
        y == CeilHalf(leftCenter.y)
        r == IF leftCenter.x = rightCenter.x
             THEN Rect(x, y, a.corridorWidth, CeilHalf(rightCenter.y) - y)
             ELSE Rect(x, y, CeilHalf(rightCenter.x) - x, a.corridorWidth)
    IN [x |-> r.x, y |-> r.y, width |-> r.width, height |-> r.height,
        traps |-> IF hasTrap
                  THEN (IF Direction(r) = "horizontal" THEN "smallLarge"
                        ELSE "smallLong")
                  ELSE "none"]

\* The internal nodes under p in the order generateCorridors visits them
RECURSIVE PreOrder(_, _)
PreOrder(t, p) ==
    IF IsInternal(t, p)
    THEN <<p>> \o PreOrder(t, LeftOf(p)) \o PreOrder(t, RightOf(p))
    ELSE << >>

RECURSIVE CorridorSeqs(_, _, _)
CorridorSeqs(t, ps, a) ==
    IF ps = << >> THEN {<< >>}
    ELSE {<<MakeCorridor(t, Head(ps), a, hasTrap)>> \o rest :
            hasTrap \in RandomWeights(<<a.corridorTrapChance,
                                       ChanceDen - a.corridorTrapChance>>,
                                      <<TRUE, FALSE>>),
            rest \in CorridorSeqs(t, Tail(ps), a)}

\* Line 289 attaches each corridor to the container of its node
GenerateCorridors ==
    /\ pc = "generateCorridors"
    /\ LET ps == PreOrder(tree, Root)
       IN \E cs \in CorridorSeqs(tree, ps, args) :
            corridors' = [p \in InternalNodes(tree) |-> cs[IndexOf(ps, p)]]
    /\ pc' = "generateMonsters"
    /\ UNCHANGED <<args, tree, todo, retries, lastDraw, rooms, monsters,
                   tilemap, props>>

----------------------------------------------------------------------------
\* generateMonsters

MonsterTypes == <<"bandit", "skeleton", "troll", "mushroom">>
MonsterWeights == <<50, 30, 15, 5>>
MonsterRadius == 3

\* Twice PoissonDiscSampling's minDistance (1.5)
MinDistance2 == 3

\* Points the sampler may return for a w x h shape: the corners of the shape
FarEnough(p, q) ==
    4 * ((p[1] - q[1]) * (p[1] - q[1]) + (p[2] - q[2]) * (p[2] - q[2]))
        >= MinDistance2 * MinDistance2

ShapePoints(w, h) ==
    IF w < 1 \/ h < 1 THEN {}
    ELSE {<<px, py>> : px \in {0, w - 1}, py \in {0, h - 1}}

\* poisson.fill() then shuffleArray: at most n points of the shape, pairwise
\* far enough, in any order
RECURSIVE PointSeqs(_, _, _)
PointSeqs(w, h, n) ==
    IF n = 0 THEN {<< >>}
    ELSE LET shorter == PointSeqs(w, h, n - 1)
         IN shorter \cup
            UNION {{Append(s, q) :
                      q \in {r \in ShapePoints(w, h) :
                                \A i \in DOMAIN s : FarEnough(s[i], r)}} :
                   s \in {t \in shorter : Len(t) = n - 1}}

\* A generateMonsters that keeps every point
Slice_KeepsAll(s, n) == s

\* Array.slice(0, n)
Slice(s, n) == SubSeq(s, 1, Min(Len(s), n))

\* The monsters of one room, given its shuffled points and their types
RoomMonsters(room, a, points, types) ==
    LET sliced == Slice(points, a.roomMaxMonsters)
    IN [i \in 1 .. Len(sliced) |->
          [x |-> room.x + a.roomGutterWidth + sliced[i][1],
           y |-> room.y + a.roomGutterWidth + sliced[i][2],
           radius |-> MonsterRadius,
           type |-> types[i]]]

RECURSIVE TypeSeqs(_)
TypeSeqs(n) ==
    IF n = 0 THEN {<< >>}
    ELSE {Append(s, ty) : s \in TypeSeqs(n - 1),
                          ty \in RandomWeights(MonsterWeights, MonsterTypes)}

RoomMonsterOutcomes(room, a) ==
    IF ~room.present THEN {<< >>}
    ELSE UNION {
        {RoomMonsters(room, a, points, types) :
            types \in TypeSeqs(Len(Slice(points, a.roomMaxMonsters)))} :
        points \in PointSeqs(room.width - a.roomGutterWidth * 2,
                             room.height - a.roomGutterWidth * 2, MaxPoints)}

RECURSIVE MonsterLists(_, _, _)
MonsterLists(rs, ls, a) ==
    IF ls = << >> THEN {<< >>}
    ELSE {ms \o rest : ms \in RoomMonsterOutcomes(rs[Head(ls)], a),
                       rest \in MonsterLists(rs, Tail(ls), a)}

GenerateMonsters ==
    /\ pc = "generateMonsters"
    /\ monsters' \in MonsterLists(rooms, Leaves(tree), args)
    /\ pc' = "carveRooms"
    /\ UNCHANGED <<args, tree, todo, retries, lastDraw, rooms, corridors,
                   tilemap, props>>

----------------------------------------------------------------------------
\* types: tile and prop ids

\* TileDirection
West == 1
East == 2
North == 4
South == 8
NorthEast == 16
NorthWest == 32

DirectionNES == North + East + South
DirectionNWS == North + West + South

\* PropType.Spikes
Spikes == 1

\* a | b for naturals
RECURSIVE NatOr(_, _)
NatOr(a, b) ==
    IF a = 0 THEN b
    ELSE IF b = 0 THEN a
    ELSE 2 * NatOr(a \div 2, b \div 2) + (IF a % 2 = 1 \/ b % 2 = 1 THEN 1 ELSE 0)

\* a & ~b for naturals
RECURSIVE NatAndNot(_, _)
NatAndNot(a, b) ==
    IF a = 0 THEN 0
    ELSE 2 * NatAndNot(a \div 2, b \div 2) + (IF a % 2 = 1 /\ b % 2 = 0 THEN 1 ELSE 0)

\* JavaScript's a | b on two's complement integers, b >= 0
BitOr(a, b) == IF a >= 0 THEN NatOr(a, b) ELSE -(NatAndNot(-a - 1, b) + 1)

----------------------------------------------------------------------------
\* utils: grids. A grid maps a row index to a row; a row maps the indexes
\* that were assigned to an id, and its length is one more than the largest
\* index at or above 0, as a JavaScript array's.

CreateTilemap(width, height, fill) ==
    [y \in 0 .. height - 1 |-> [x \in 0 .. width - 1 |-> fill]]

RowLength(row) ==
    LET idx == {i \in DOMAIN row : i >= 0}
    IN IF idx = {} THEN 0 ELSE (CHOOSE i \in idx : \A j \in idx : j <= i) + 1

NumRows(grid) == Cardinality(DOMAIN grid)

Defined(grid, y, x) == y \in DOMAIN grid /\ x \in DOMAIN grid[y]

\* grid[y][x] > 0, === 0, <= 0: all false of undefined
Solid(grid, y, x) == Defined(grid, y, x) /\ grid[y][x] > 0
IsFloor(grid, y, x) == Defined(grid, y, x) /\ grid[y][x] = 0
NotSolid(grid, y, x) == Defined(grid, y, x) /\ grid[y][x] <= 0

\* grid[y][x] = v, on a row that exists
SetCell(grid, y, x, v) ==
    [grid EXCEPT ![y] = [i \in DOMAIN grid[y] \cup {x} |->
                            IF i = x THEN v ELSE grid[y][i]]]

InRect(r, y, x) == y >= r.y /\ y < Down(r) /\ x >= r.x /\ x < Right(r)

\* The double loop of carveRooms and carveCorridors: every visited cell
\* inside one of the rectangles becomes 0
CarveRects(grid, rects) ==
    [y \in DOMAIN grid |->
        LET row == grid[y]
            hit == {x \in 0 .. RowLength(row) - 1 : \E r \in rects : InRect(r, y, x)}
        IN [x \in DOMAIN row \cup hit |-> IF x \in hit THEN 0 ELSE row[x]]]

\* Writes <<y, x, v>> done one after the other; a write to a row that does
\* not exist throws a TypeError
RECURSIVE Stamp(_, _)
Stamp(grid, writes) ==
    IF writes = << >> THEN [ok |-> TRUE, grid |-> grid]
    ELSE LET w == Head(writes)
         IN IF w[1] \notin DOMAIN grid THEN [ok |-> FALSE, grid |-> grid]
            ELSE Stamp(SetCell(grid, w[1], w[2], w[3]), Tail(writes))

----------------------------------------------------------------------------
\* generateTilemap, pass by pass

RoomRects(rs) == {rs[p] : p \in {q \in DOMAIN rs : rs[q].present}}

\* createTilemap twice, then carveRooms(tree, tilemap)
CarveRooms ==
    /\ pc = "carveRooms"
    /\ tilemap' = CarveRects(CreateTilemap(args.mapWidth, args.mapHeight, 1),
                             RoomRects(rooms))
    /\ props' = CreateTilemap(args.mapWidth, args.mapHeight, 0)
    /\ pc' = "carveCorridors"
    /\ UNCHANGED <<args, tree, todo, retries, lastDraw, rooms, corridors, monsters>>

\* A carveCorridors that carves its third parameter
CarveCorridorsFn_ThirdParam(cs, propsParam, tilemapParam) ==
    <<propsParam, CarveRects(tilemapParam, {cs[p] : p \in DOMAIN cs})>>

\* carveCorridors(node, props, tilemap): the grid it carves is its second
\* parameter, the one it leaves alone its third
CarveCorridorsFn(cs, propsParam, tilemapParam) ==
    <<CarveRects(propsParam, {cs[p] : p \in DOMAIN cs}), tilemapParam>>

\* The call of line 347: carveCorridors(tree, tilemap, props)
CarveCorridors ==
    /\ pc = "carveCorridors"
    /\ LET out == CarveCorridorsFn(corridors, tilemap, props)
       IN /\ tilemap' = out[1]
          /\ props' = out[2]
    /\ pc' = "carvePatterns"
    /\ UNCHANGED <<args, tree, todo, retries, lastDraw, rooms, corridors, monsters>>

\* The writes of a w x h pattern centred on rectangle r (start = ceil(center -
\* size / 2)), row by row; tiles[y + 1][x + 1] is what is written at (y, x)
PatternWrites(r, w, h, tiles) ==
    LET startY == CeilHalf(Center2(r).y - h)
        startX == CeilHalf(Center2(r).x - w)
    IN [k \in 1 .. w * h |->
          LET y == (k - 1) \div w
              x == (k - 1) % w
          IN <<startY + y, startX + x, tiles[y + 1][x + 1]>>]

HoleWrites(room) ==
    LET hole == Holes[room.holes]
    IN PatternWrites(room, hole.width, hole.height, hole.tiles)

RECURSIVE AllHoleWrites(_, _)
AllHoleWrites(rs, ls) ==
    IF ls = << >> THEN << >>
    ELSE (IF rs[Head(ls)].present /\ rs[Head(ls)].holes # 0
          THEN HoleWrites(rs[Head(ls)]) ELSE << >>)
         \o AllHoleWrites(rs, Tail(ls))

CarvePatterns ==
    /\ pc = "carvePatterns"
    /\ LET out == Stamp(tilemap, AllHoleWrites(rooms, Leaves(tree)))
       IN IF out.ok
          THEN tilemap' = out.grid /\ pc' = "carveTraps"
          ELSE tilemap' = tilemap /\ pc' = "error"
    /\ UNCHANGED <<args, tree, todo, retries, lastDraw, rooms, corridors,
                   monsters, props>>

TrapWrites(corridor) ==
    LET trap == Traps(corridor.traps)
        spikes == [y \in 1 .. trap.height |-> [x \in 1 .. trap.width |-> Spikes]]
    IN PatternWrites(corridor, trap.width, trap.height, spikes)

RECURSIVE AllTrapWrites(_, _)
AllTrapWrites(cs, ps) ==
    IF ps = << >> THEN << >>
    ELSE (IF cs[Head(ps)].traps # "none" THEN TrapWrites(cs[Head(ps)]) ELSE << >>)
         \o AllTrapWrites(cs, Tail(ps))

\* The call of line 349: carveTraps(tree, props)
CarveTraps ==
    /\ pc = "carveTraps"
    /\ LET out == Stamp(props, AllTrapWrites(corridors, PreOrder(tree, Root)))
       IN IF out.ok
          THEN props' = out.grid /\ pc' = "cleanTilemap"
          ELSE props' = props /\ pc' = "error"
    /\ UNCHANGED <<args, tree, todo, retries, lastDraw, rooms, corridors,
                   monsters, tilemap>>

\* One step of cleanTilemap's first loop, at cell (y, x)
CleanCell(grid, y, x) ==
    IF NotSolid(grid, y, x) THEN grid
    ELSE IF IsFloor(grid, y, x - 1) /\ IsFloor(grid, y, x + 1)
    THEN SetCell(grid, y, x, 0)
    ELSE IF /\ y > 0 /\ IsFloor(grid, y - 1, x)
            /\ y < NumRows(grid) - 1 /\ IsFloor(grid, y + 1, x)
    THEN SetCell(grid, y, x, 0)
    ELSE grid

\* cleanTilemap's first loop: for x < tilemap[y].length, for y < tilemap.length
RECURSIVE CleanRow(_, _, _)
CleanRow(grid, y, x) ==
    IF x >= RowLength(grid[y]) THEN grid
    ELSE CleanRow(CleanCell(grid, y, x), y, x + 1)

RECURSIVE CleanRows(_, _)
CleanRows(grid, y) ==
    IF y >= NumRows(grid) THEN grid
    ELSE CleanRows(CleanRow(grid, y, 0), y + 1)

\* A cleanTilemap whose second loop tests the columns only
CleanTraps_ColumnsOnly(grid, rects) ==
    [y \in DOMAIN grid |->
        [x \in DOMAIN grid[y] |->
            IF /\ x >= 0
               /\ grid[y][x] = Spikes
               /\ \E r \in rects : InRect(r, r.y, x) /\ y > r.y
            THEN 0 ELSE grid[y][x]]]

\* cleanTilemap's second loop: spikes inside a room are removed
CleanTraps(grid, rects) ==
    [y \in DOMAIN grid |->
        [x \in DOMAIN grid[y] |->
            IF /\ x >= 0
               /\ grid[y][x] = Spikes
               /\ \E r \in rects : InRect(r, y, x)
            THEN 0 ELSE grid[y][x]]]

CleanTilemap ==
    /\ pc = "cleanTilemap"
    /\ tilemap' = CleanRows(tilemap, 0)
    /\ props' = CleanTraps(props, RoomRects(rooms))
    /\ pc' = "generateTileMask"
    /\ UNCHANGED <<args, tree, todo, retries, lastDraw, rooms, corridors, monsters>>

\* An isColliding whose east test compares x with the row's length
IsColliding_EastOffByOne(grid, y, x, side) ==
    CASE side = "north" -> y = 0 \/ Solid(grid, y - 1, x)
      [] side = "east" -> x = RowLength(grid[y]) \/ Solid(grid, y, x + 1)
      [] side = "west" -> x = 0 \/ Solid(grid, y, x - 1)
      [] side = "south" -> y = NumRows(grid) - 1 \/ Solid(grid, y + 1, x)

\* isColliding: the side is the grid's edge or the neighbour there is solid
IsColliding(grid, y, x, side) ==
    CASE side = "north" -> y = 0 \/ Solid(grid, y - 1, x)
      [] side = "east" -> x = RowLength(grid[y]) - 1 \/ Solid(grid, y, x + 1)
      [] side = "west" -> x = 0 \/ Solid(grid, y, x - 1)
      [] side = "south" -> y = NumRows(grid) - 1 \/ Solid(grid, y + 1, x)

GetTileMask(grid, y, x) ==
    (IF IsColliding(grid, y, x, "west") THEN West ELSE 0)
    + (IF IsColliding(grid, y, x, "east") THEN East ELSE 0)
    + (IF IsColliding(grid, y, x, "north") THEN North ELSE 0)
    + (IF IsColliding(grid, y, x, "south") THEN South ELSE 0)

\* One step of generateTileMask's loop, at cell (y, x)
MaskCell(grid, y, x) ==
    IF Solid(grid, y, x) THEN SetCell(grid, y, x, GetTileMask(grid, y, x)) ELSE grid

\* generateTileMask's loop: in place, so a mask already stored is what the
\* cells after it read
RECURSIVE MaskRow(_, _, _)
MaskRow(grid, y, x) ==
    IF x >= RowLength(grid[y]) THEN grid
    ELSE MaskRow(MaskCell(grid, y, x), y, x + 1)

RECURSIVE MaskRows(_, _)
MaskRows(grid, y) ==
    IF y >= NumRows(grid) THEN grid
    ELSE MaskRows(MaskRow(grid, y, 0), y + 1)

GenerateTileMask ==
    /\ pc = "generateTileMask"
    /\ tilemap' = MaskRows(tilemap, 0)
    /\ pc' = "normalizeTileMask"
    /\ UNCHANGED <<args, tree, todo, retries, lastDraw, rooms, corridors,
                   monsters, props>>

\* A normalizeTileMask whose north-east rule sets the north-west bit as well
NormalizeCell_OrsBoth(grid, y, x) ==
    IF ~(y > 0 /\ y < NumRows(grid) - 1 /\ x < RowLength(grid[y]) - 1) THEN grid
    ELSE LET left == Solid(grid, y, x - 1)
             right == Solid(grid, y, x + 1)
             top == Solid(grid, y - 1, x)
             bottom == Solid(grid, y + 1, x)
             own == IF Defined(grid, y, x) THEN grid[y][x] ELSE 0
         IN IF right /\ bottom /\ NotSolid(grid, y + 1, x + 1)
            THEN SetCell(grid, y, x, DirectionNWS)
            ELSE IF left /\ bottom /\ NotSolid(grid, y + 1, x - 1)
            THEN SetCell(grid, y, x, DirectionNES)
            ELSE IF top /\ right /\ NotSolid(grid, y - 1, x + 1)
            THEN SetCell(grid, y, x, BitOr(BitOr(own, NorthEast), NorthWest))
            ELSE IF top /\ left /\ NotSolid(grid, y - 1, x - 1)
            THEN SetCell(grid, y, x, BitOr(own, NorthWest))
            ELSE grid

\* One step of normalizeTileMask's loop, at cell (y, x)
NormalizeCell(grid, y, x) ==
    IF ~(y > 0 /\ y < NumRows(grid) - 1 /\ x < RowLength(grid[y]) - 1) THEN grid
    ELSE LET left == Solid(grid, y, x - 1)
             right == Solid(grid, y, x + 1)
             top == Solid(grid, y - 1, x)
             bottom == Solid(grid, y + 1, x)
             own == IF Defined(grid, y, x) THEN grid[y][x] ELSE 0
         IN IF right /\ bottom /\ NotSolid(grid, y + 1, x + 1)
            THEN SetCell(grid, y, x, DirectionNWS)
            ELSE IF left /\ bottom /\ NotSolid(grid, y + 1, x - 1)
            THEN SetCell(grid, y, x, DirectionNES)
            ELSE IF top /\ right /\ NotSolid(grid, y - 1, x + 1)
            THEN SetCell(grid, y, x, BitOr(own, NorthEast))
            ELSE IF top /\ left /\ NotSolid(grid, y - 1, x - 1)
            THEN SetCell(grid, y, x, BitOr(own, NorthWest))
            ELSE grid

RECURSIVE NormalizeRow(_, _, _)
NormalizeRow(grid, y, x) ==
    IF x >= RowLength(grid[y]) THEN grid
    ELSE NormalizeRow(NormalizeCell(grid, y, x), y, x + 1)

RECURSIVE NormalizeRows(_, _)
NormalizeRows(grid, y) ==
    IF y >= NumRows(grid) THEN grid
    ELSE NormalizeRows(NormalizeRow(grid, y, 0), y + 1)

\* normalizeTileMask, after which the constructor returns the Dungeon
NormalizeTileMask ==
    /\ pc = "normalizeTileMask"
    /\ tilemap' = NormalizeRows(tilemap, 0)
    /\ pc' = "done"
    /\ UNCHANGED <<args, tree, todo, retries, lastDraw, rooms, corridors,
                   monsters, props>>

----------------------------------------------------------------------------
Next ==
    \/ SplitContainer
    \/ GenerateRooms
    \/ GenerateCorridors
    \/ GenerateMonsters
    \/ CarveRooms
    \/ CarveCorridors
    \/ CarvePatterns
    \/ CarveTraps
    \/ CleanTilemap
    \/ GenerateTileMask
    \/ NormalizeTileMask

Spec == Init /\ [][Next]_vars

\* The tree builder alone. The program always takes its next step, and a
\* random source that can draw an acceptable split infinitely often
\* eventually draws one.
TreeNext == SplitContainer
SplitReturns == SplitContainer /\ retries' = 0
TreeFairSpec ==
    Init /\ [][TreeNext]_vars /\ WF_vars(TreeNext) /\ SF_vars(SplitReturns)

----------------------------------------------------------------------------
\* Properties

TreeBuilt == pc \notin {"generateTree", "stackOverflow"}
Pow2(n) == IF n = 0 THEN 1 ELSE IF n = 1 THEN 2 ELSE IF n = 2 THEN 4
           ELSE IF n = 3 THEN 8 ELSE 16
ChildlessNodes == {p \in DOMAIN tree :
                     LeftOf(p) \notin DOMAIN tree /\ RightOf(p) \notin DOMAIN tree}

\* C1: once generateTree has returned, the tree is a full binary tree: every
\* node has no child or two, every childless node is at depth `iterations`,
\* and there are 2^iterations of them.
C1_FullBinaryTree ==
    TreeBuilt =>
        /\ \A p \in DOMAIN tree :
              (LeftOf(p) \in DOMAIN tree) <=> (RightOf(p) \in DOMAIN tree)
        /\ \A p \in ChildlessNodes : Len(p) = args.iterations
        /\ Cardinality(ChildlessNodes) = Pow2(args.iterations)

C1_Witness ==
    /\ pc = "generateRooms"
    /\ args.iterations = MaxIterations
    /\ Cardinality(DOMAIN tree) = 2 * Pow2(MaxIterations) - 1

\* The children of p share its origin, split it along one axis without gap
\* or overlap, and each has an extent of at least 1 on that axis
PartitionsVertically(c, l, r) ==
    /\ l.x = c.x /\ l.y = c.y /\ r.y = c.y
    /\ l.height = c.height /\ r.height = c.height
    /\ r.x = l.x + l.width
    /\ l.width + r.width = c.width
    /\ l.width >= 1 /\ r.width >= 1

PartitionsHorizontally(c, l, r) ==
    /\ l.x = c.x /\ l.y = c.y /\ r.x = c.x
    /\ l.width = c.width /\ r.width = c.width
    /\ r.y = l.y + l.height
    /\ l.height + r.height = c.height
    /\ l.height >= 1 /\ r.height >= 1

\* C2: the two containers splitContainer returned for a node exactly
\* partition the node's container along one axis, and neither is empty on
\* that axis.
C2_ChildrenPartition ==
    \A p \in InternalNodes(tree) :
        \/ PartitionsVertically(tree[p], tree[LeftOf(p)], tree[RightOf(p)])
        \/ PartitionsHorizontally(tree[p], tree[LeftOf(p)], tree[RightOf(p)])

\* Some draw of splitContainer on container c passes the ratio check
HasAcceptableSplit(c, a) ==
    \E direction \in {"vertical", "horizontal"} :
        \E size \in SplitSizes(c, direction) :
            ~SplitRejected(SplitPair(c, direction, size), direction, a)

\* The split step comes to an end: the tree is returned or the constructor
\* throws
SplitStepEnds == <>(pc # "generateTree")

\* C3: splitContainer's retries are bounded and it stops by returning a
\* split or by failing with a configuration error: the split step fails
\* only on a container that no split can satisfy the ratios for.
C3_SplitFailsOnlyOnConfiguration ==
    pc = "stackOverflow" => ~HasAcceptableSplit(tree[Head(todo)], args)

RoomsGenerated == pc \notin {"generateTree", "stackOverflow", "generateRooms"}
CorridorsGenerated == RoomsGenerated /\ pc # "generateCorridors"
MonstersGenerated == CorridorsGenerated /\ pc # "generateMonsters"
GridsCreated == MonstersGenerated /\ pc # "carveRooms"

\* C4: after generateRooms every room lies inside its leaf container and is
\* at least roomMinSize wide and high, and a leaf whose computed width or
\* height is below roomMinSize has no room.
C4_RoomsInsideContainers ==
    RoomsGenerated =>
        \A p \in DOMAIN rooms :
            LET c == tree[p]
                r == rooms[p]
            IN /\ r.present =>
                    /\ r.x >= c.x /\ r.y >= c.y
                    /\ Right(r) <= Right(c) /\ Down(r) <= Down(c)
                    /\ r.width >= args.roomMinSize
                    /\ r.height >= args.roomMinSize
               /\ (r.width < args.roomMinSize \/ r.height < args.roomMinSize)
                    => ~r.present

C4_Witness ==
    /\ pc = "generateCorridors"
    /\ \E p \in DOMAIN rooms : rooms[p].present /\ rooms[p].x > tree[p].x
                               /\ Right(rooms[p]) < Right(tree[p])
    /\ \E p \in DOMAIN rooms : ~rooms[p].present

\* A point (doubled coordinates) is inside the rectangle or less than one
\* tile away from it on each axis
Touches(r, point2) ==
    /\ 2 * r.x - 2 < point2.x /\ point2.x < 2 * Right(r) + 2
    /\ 2 * r.y - 2 < point2.y /\ point2.y < 2 * Down(r) + 2

SpikeCells(grid) ==
    {<<y, x>> \in UNION {{<<r, c>> : c \in DOMAIN grid[r]} : r \in DOMAIN grid} :
        grid[y][x] = Spikes}

\* C6: with corridorTrapChance = 1 every corridor carries a trap pattern, and
\* the returned prop grid has no spikes inside the rectangle of a room.
C6_TrapsOutsideRooms ==
    args.corridorTrapChance = ChanceDen =>
        /\ CorridorsGenerated => \A p \in InternalNodes(tree) : corridors[p].traps # "none"
        /\ pc = "done" =>
              \A cell \in SpikeCells(props) :
                  \A r \in RoomRects(rooms) : ~InRect(r, cell[1], cell[2])

C6_Witness ==
    /\ pc = "done"
    /\ args.corridorTrapChance = ChanceDen
    /\ SpikeCells(props) # {}
    /\ \E p \in DOMAIN corridors :
          \E i \in DOMAIN TrapWrites(corridors[p]) :
              \E r \in RoomRects(rooms) :
                  InRect(r, TrapWrites(corridors[p])[i][1], TrapWrites(corridors[p])[i][2])

CardinalMasks == 0 .. (West + East + North + South)
CornerValues ==
    {DirectionNES, DirectionNWS}
    \cup {BitOr(m, NorthEast) : m \in CardinalMasks}
    \cup {BitOr(m, NorthWest) : m \in CardinalMasks}
TileValues(grid) == UNION {{grid[y][x] : x \in DOMAIN grid[y]} : y \in DOMAIN grid}

\* C7: every cell of the returned tile grid is 0, one of the 16 cardinal
\* masks, or a corner value of the normalization.
C7_OnlyMaskValues ==
    pc = "done" => TileValues(tilemap) \subseteq CardinalMasks \cup CornerValues

\* The returned grid holds a corner value above the cardinal masks, and a
\* solid tile that a hole pattern put back into a room ended as a wall value
C7_Witness ==
    /\ pc = "done"
    /\ \E v \in TileValues(tilemap) : v > West + East + North + South
    /\ \E p \in DOMAIN rooms :
          /\ rooms[p].present /\ rooms[p].holes # 0
          /\ \E i \in DOMAIN HoleWrites(rooms[p]) :
                LET w == HoleWrites(rooms[p])[i]
                IN w[3] > 0 /\ Solid(tilemap, w[1], w[2])

InInterior(m, room) ==
    /\ room.x + args.roomGutterWidth <= m.x
    /\ m.x <= room.x + room.width - args.roomGutterWidth
    /\ room.y + args.roomGutterWidth <= m.y
    /\ m.y <= room.y + room.height - args.roomGutterWidth

\* C8: every monster lies in the gutter-inset interior of a room, a leaf with
\* a room holds at most roomMaxMonsters monsters and a leaf without a room
\* holds none.
C8_MonstersInsideRooms ==
    MonstersGenerated =>
        /\ \A i \in DOMAIN monsters :
              \E p \in DOMAIN rooms : rooms[p].present /\ InInterior(monsters[i], rooms[p])
        /\ \A p \in DOMAIN rooms :
              Cardinality({i \in DOMAIN monsters :
                              InRect(tree[p], monsters[i].y, monsters[i].x)})
                 <= (IF rooms[p].present THEN args.roomMaxMonsters ELSE 0)

C8_Witness ==
    /\ pc = "carveRooms"
    /\ Len(monsters) = 2
    /\ args.roomMaxMonsters = 1
    /\ args.roomGutterWidth = 1
    /\ \E p \in DOMAIN rooms :
          /\ rooms[p].present
          /\ rooms[p].width - args.roomGutterWidth * 2 >= 3
          /\ InRect(rooms[p], monsters[1].y, monsters[1].x)
          /\ monsters[1].x = rooms[p].x + rooms[p].width - args.roomGutterWidth - 1

HasDimensions(grid, width, height) ==
    /\ DOMAIN grid = 0 .. height - 1
    /\ \A y \in DOMAIN grid : DOMAIN grid[y] = 0 .. width - 1

\* C9: the tile grid and the prop grid keep mapHeight rows of mapWidth
\* columns, and no pattern is stamped outside them (a write to a missing row
\* fails, a write past the end of a row grows it).
C9_GridDimensions ==
    /\ pc # "error"
    /\ GridsCreated =>
          /\ HasDimensions(tilemap, args.mapWidth, args.mapHeight)
          /\ HasDimensions(props, args.mapWidth, args.mapHeight)

CorridorRects == {corridors[p] : p \in DOMAIN corridors}

\* C10, as claimed: carveCorridors sets the prop grid's cells inside every
\* corridor to 0 and leaves the tile grid as carveRooms left it.
C10_CarvesPropGrid ==
    [][pc = "carveCorridors" =>
          /\ tilemap' = tilemap
          /\ \A y \in DOMAIN props' : \A x \in DOMAIN props'[y] :
                (\E r \in CorridorRects : InRect(r, y, x)) => props'[y][x] = 0]_vars

\* C10, amended: carveCorridors sets the tile grid's cells inside every
\* corridor to 0, leaves the other cells of the tile grid as they were and
\* leaves the prop grid unchanged.
C10_CarvesTileGrid ==
    [][pc = "carveCorridors" =>
          /\ props' = props
          /\ DOMAIN tilemap' = DOMAIN tilemap
          /\ \A y \in DOMAIN tilemap :
                /\ DOMAIN tilemap'[y] = DOMAIN tilemap[y]
                /\ \A x \in DOMAIN tilemap[y] :
                      tilemap'[y][x] = IF \E r \in CorridorRects : InRect(r, y, x)
                                       THEN 0 ELSE tilemap[y][x]]_vars

C10_Witness ==
    /\ pc = "carvePatterns"
    /\ \E y \in DOMAIN tilemap : \E x \in DOMAIN tilemap[y] :
          /\ \E r \in CorridorRects : InRect(r, y, x)
          /\ \A r \in RoomRects(rooms) : ~InRect(r, y, x)
          /\ tilemap[y][x] = 0

HorizontalSliver(grid, y, x) ==
    Solid(grid, y, x) /\ IsFloor(grid, y, x - 1) /\ IsFloor(grid, y, x + 1)

VerticalSliver(grid, y, x) ==
    Solid(grid, y, x) /\ IsFloor(grid, y - 1, x) /\ IsFloor(grid, y + 1, x)

\* C11: when cleanTilemap has returned, the tile grid has no solid cell whose
\* left and right neighbours are both floor and none whose top and bottom
\* neighbours are both floor.
C11_NoSliverLeft ==
    pc = "generateTileMask" =>
        \A y \in DOMAIN tilemap : \A x \in DOMAIN tilemap[y] :
            ~HorizontalSliver(tilemap, y, x) /\ ~VerticalSliver(tilemap, y, x)

\* The mask of cell (y, x) read from an untouched grid: a bit per cardinal
\* side whose neighbour is solid in that grid or lies outside it
OutsideOrSolid(grid, y, x) ==
    \/ y \notin DOMAIN grid
    \/ x < 0
    \/ x >= RowLength(grid[y])
    \/ Solid(grid, y, x)

MaskFromCopy(grid, y, x) ==
    (IF OutsideOrSolid(grid, y, x - 1) THEN West ELSE 0)
    + (IF OutsideOrSolid(grid, y, x + 1) THEN East ELSE 0)
    + (IF OutsideOrSolid(grid, y - 1, x) THEN North ELSE 0)
    + (IF OutsideOrSolid(grid, y + 1, x) THEN South ELSE 0)

\* C12: generateTileMask leaves in every cell that was solid in the cleaned
\* grid the mask computed from the cleaned grid itself (a bit per cardinal
\* neighbour that was solid or lies outside the grid), and leaves every other
\* cell as it was: computing in place changes nothing.
C12_InPlaceMaskIsCopyMask ==
    [][pc = "generateTileMask" =>
          /\ DOMAIN tilemap' = DOMAIN tilemap
          /\ \A y \in DOMAIN tilemap :
                /\ DOMAIN tilemap'[y] = DOMAIN tilemap[y]
                /\ \A x \in DOMAIN tilemap[y] :
                      tilemap'[y][x] = IF tilemap[y][x] > 0
                                       THEN MaskFromCopy(tilemap, y, x)
                                       ELSE tilemap[y][x]]_vars

\* A solid cell was masked after its west and north neighbours had been
\* overwritten with their masks
C12_Witness ==
    /\ pc = "normalizeTileMask"
    /\ \E y \in DOMAIN tilemap : \E x \in DOMAIN tilemap[y] :
          /\ x > 0 /\ y > 0
          /\ tilemap[y][x] = West + North
          /\ Solid(tilemap, y, x - 1)
          /\ Solid(tilemap, y - 1, x)

\* A cell of the first or last row or column of the map
OnBoundary(y, x) ==
    x = 0 \/ x = args.mapWidth - 1 \/ y = 0 \/ y = args.mapHeight - 1

\* C13: normalizeTileMask changes only interior tiles: every tile of the
\* first or last row or column has the same value after it as before.
C13_BoundaryUnchanged ==
    [][pc = "normalizeTileMask" =>
          \A y \in DOMAIN tilemap : \A x \in DOMAIN tilemap[y] :
              OnBoundary(y, x) =>
                  /\ y \in DOMAIN tilemap' /\ x \in DOMAIN tilemap'[y]
                  /\ tilemap'[y][x] = tilemap[y][x]]_vars

====
